---- MODULE Spec2Model ----
(***************************************************************************)
(* Model of src/src/bank_data_merging.py: class BankMerge.                  *)
(*                                                                         *)
(* A DataFrame is a record [columns, rows, index]: the ordered column      *)
(* labels, the rows (each a sequence of cells aligned with columns) and    *)
(* the row index.  Cells are strings; "#12" stands for the number 12 as    *)
(* read_csv infers it, "Timestamp(...)" for a parsed datetime64 value and  *)
(* "NaN" for the null marker.                                              *)
(*                                                                         *)
(* A raised Python exception is the status of an operation: "ok" when it   *)
(* returns normally, else the name of the exception that leaves it.        *)
(***************************************************************************)
EXTENDS Integers, Sequences, FiniteSets, TLC

VARIABLES dir, pc, bank_files, merged_data, last

vars == <<dir, pc, bank_files, merged_data, last>>

\* Most rows a csv file of the directory holds.
MaxRows == 2

(***************************************************************************)
(* Values.                                                                 *)
(***************************************************************************)
Null == "NaN"

\* The cell values a csv file can hold: an ISO date text, a number, a text.
CellCycle == <<"2019-01-05", "#12", "abc">>

Cell(seed, r, c) == CellCycle[((seed + r + c) % Len(CellCycle)) + 1]

Seeds == 0 .. (Len(CellCycle) - 1)

\* pd.read_csv: the frame of a csv file with the given header; its index is
\* the RangeIndex 0..n-1 and its labels are distinct (read_csv mangles
\* duplicate headers).
read_csv(columns, nrows, seed) ==
    [columns |-> columns,
     rows    |-> [r \in 1 .. nrows |-> [c \in 1 .. Len(columns) |-> Cell(seed, r, c)]],
     index   |-> [r \in 1 .. nrows |-> r - 1]]

\* The headers of the csv files of the directory.
Headers ==
    { <<"date">>,
      <<"date", "dates">>,
      <<"transaction", "amounts">>,
      <<"Date", "type">> }

BankNames == {"bankA", "bankB"}

(***************************************************************************)
(* pandas conversions, per cell.                                           *)
(***************************************************************************)
\* pd.to_datetime of one value with errors='raise': <<parsed>> or <<>> when
\* the value cannot be parsed.  Without a format a number is a count of
\* nanoseconds since the epoch; with a format every value is matched
\* against it as text.
to_datetime_value(v, fmt) ==
    CASE v = "2019-01-05" -> <<"Timestamp(2019-01-05 00:00:00)">>
      [] v = "2019-01-05 00:00:00" ->
            IF fmt = "None" THEN <<"Timestamp(2019-01-05 00:00:00)">> ELSE <<>>
      [] v = "#12" ->
            IF fmt = "None" THEN <<"Timestamp(1970-01-01 00:00:00.000000012)">> ELSE <<>>
      [] v = "Timestamp(2019-01-05 00:00:00)" -> <<v>>
      [] v = "Timestamp(1970-01-01 00:00:00.000000012)" -> <<v>>
      [] v = Null -> <<"NaT">>
      [] v = "NaT" -> <<"NaT">>
      [] OTHER -> <<>>

\* Series.astype('str') of one value.
astype_str(v) ==
    CASE v = "#12" -> "12"
      [] v = "Timestamp(2019-01-05 00:00:00)" -> "2019-01-05 00:00:00"
      [] v = "Timestamp(1970-01-01 00:00:00.000000012)" -> "1970-01-01 00:00:00.000000012"
      [] v = Null -> "nan"
      [] OTHER -> v

(***************************************************************************)
(* Meta dictionaries.  A rule set is the ordered items of one entry of the *)
(* meta dictionary: key is the canonical name, aliases is value[0], tag is *)
(* value[1][0] and fmt is value[1][1].                                     *)
(***************************************************************************)
Rule(key, aliases, tag, fmt) ==
    [key |-> key, aliases |-> aliases, tag |-> tag, fmt |-> fmt]

\* _get_default_meta_dict.  ('object') and ('numeric') are plain strings, so
\* value[1][0] is their first character.
_get_default_meta_dict ==
    "default" :> << Rule("date",   {"date", "dates", "datetime"}, "datetime", "None"),
                    Rule("type",   {"type", "transaction"},       "o",        "None"),
                    Rule("amount", {"amount", "amounts"},         "n",        "None"),
                    Rule("to",     {"to"},                        "n",        "None"),
                    Rule("from",   {"from"},                      "n",        "None") >>

\* json.load of a custom meta dictionary file, by the file's name.
json_load(custom_meta_dict) ==
    CASE custom_meta_dict = "chain.json" ->
            "default" :> << Rule("date", {"date", "dates"}, "datetime", "%Y-%m-%d"),
                            Rule("type", {"transaction"},   "object",   "None"),
                            Rule("kind", {"type"},          "object",   "None") >>
      [] custom_meta_dict = "onlyA.json" ->
            "bankA" :> << Rule("amount", {"amount", "amounts"}, "numeric",  "None"),
                          Rule("date",   {"date", "Date"},      "datetime", "None") >>
      [] custom_meta_dict = "mixed.json" ->
            ("bankA" :> << Rule("day",  {"date", "Date"}, "datetime", "None"),
                           Rule("type", {"transaction"},  "object",   "None") >>)
            @@
            ("default" :> << Rule("amount", {"amounts", "dates"}, "numeric", "None"),
                             Rule("date",   {"date"},             "object",  "None") >>)

\* The values of merge's custom_meta_dict argument; "None" is no file.
MetaDictFiles == {"None", "chain.json", "onlyA.json", "mixed.json"}

(***************************************************************************)
(* _harmonize.                                                             *)
(***************************************************************************)
Positions(columns, label) == {p \in 1 .. Len(columns) : columns[p] = label}

\* str.lower of a column label.
Lower(col) ==
    CASE col = "Date" -> "date"
      [] col = "Type" -> "type"
      [] col = "Amount" -> "amount"
      [] col = "To" -> "to"
      [] col = "From" -> "from"
      [] OTHER -> col

\* Matches, had the labels been compared without regard to case.
MatchesAnyCase(col, aliases) == Lower(col) \in aliases

\* col in value[0]
Matches(col, aliases) == col \in aliases

\* harmonized_df.rename(columns={col: key}, inplace=True): every column
\* labelled col takes the label key.  renames counts, per column position,
\* the renames that hit it.
rename(h, col, key) ==
    [h EXCEPT
       !.df.columns = [p \in 1 .. Len(h.df.columns) |->
                          IF h.df.columns[p] = col THEN key ELSE h.df.columns[p]],
       !.renames = [p \in 1 .. Len(h.renames) |->
                          IF h.df.columns[p] = col THEN h.renames[p] + 1
                          ELSE h.renames[p]]]

\* pd.to_datetime(harmonized_df[key], format=fmt, errors='raise') succeeds:
\* harmonized_df[key] is a Series (one column bears the label) and every
\* value parses.  For a DataFrame (a duplicated label) to_datetime demands
\* year, month and day columns and raises.
to_datetime_ok(df, key, fmt) ==
    /\ Cardinality(Positions(df.columns, key)) = 1
    /\ \A r \in 1 .. Len(df.rows) : \A p \in Positions(df.columns, key) :
          to_datetime_value(df.rows[r][p], fmt) # <<>>

\* harmonized_df[key] = pd.to_datetime(harmonized_df[key], format=fmt):
\* the parsed values of every column labelled key.
SetDatetime(df, key, fmt) ==
    [df EXCEPT !.rows = [r \in 1 .. Len(df.rows) |->
                           [p \in 1 .. Len(df.columns) |->
                              IF df.columns[p] = key
                              THEN to_datetime_value(df.rows[r][p], fmt)[1]
                              ELSE df.rows[r][p]]]]

\* harmonized_df[key] = harmonized_df[key].astype('str'), for a Series and
\* for the DataFrame of a duplicated label alike.
SetStr(df, key) ==
    [df EXCEPT !.rows = [r \in 1 .. Len(df.rows) |->
                           [p \in 1 .. Len(df.columns) |->
                              IF df.columns[p] = key THEN astype_str(df.rows[r][p])
                              ELSE df.rows[r][p]]]]

\* The try block of _harmonize and its except clause.  An exception raised
\* in the block reaches `except FormatRuleError():`, which evaluates to an
\* instance, not a class: matching against it raises TypeError, the handler
\* body (the print) never runs and the TypeError leaves _harmonize.
Coerce(h, rule, check_types) ==
    IF ~check_types THEN h
    ELSE CASE rule.tag = "datetime" ->
                 IF to_datetime_ok(h.df, rule.key, rule.fmt)
                 THEN [h EXCEPT !.df = SetDatetime(h.df, rule.key, rule.fmt)]
                 ELSE [h EXCEPT !.status = "TypeError"]
           [] rule.tag = "object" ->
                 [h EXCEPT !.df = SetStr(h.df, rule.key)]
           [] rule.tag = "numeric" ->
                 IF to_datetime_ok(h.df, rule.key, "None")
                 THEN h
                 ELSE [h EXCEPT !.status = "TypeError"]
           [] OTHER -> h

\* for col in harmonized_df.columns: the loop runs over the Index object
\* taken when the loop starts (rename replaces the frame's Index, the old
\* one is immutable).
RECURSIVE ColumnLoop(_, _, _, _, _)
ColumnLoop(h, snapshot, ci, rule, check_types) ==
    IF h.status # "ok" \/ ci > Len(snapshot) THEN h
    ELSE IF Matches(snapshot[ci], rule.aliases)
         THEN ColumnLoop(Coerce(rename(h, snapshot[ci], rule.key), rule, check_types),
                         snapshot, ci + 1, rule, check_types)
         ELSE ColumnLoop(h, snapshot, ci + 1, rule, check_types)

\* for key, value in col_dict.items()
RECURSIVE RuleLoop(_, _, _, _)
RuleLoop(h, col_dict, k, check_types) ==
    IF h.status # "ok" \/ k > Len(col_dict) THEN h
    ELSE RuleLoop(ColumnLoop(h, h.df.columns, 1, col_dict[k], check_types),
                  col_dict, k + 1, check_types)

\* _harmonize(bank_df, col_dict, check_types): status "ok" and the
\* harmonized frame, or the exception that leaves it.  printed is what the
\* call printed.
_harmonize(bank_df, col_dict, check_types) ==
    RuleLoop([status  |-> "ok",
              df      |-> bank_df,
              renames |-> [p \in 1 .. Len(bank_df.columns) |-> 0],
              printed |-> <<>>],
             col_dict, 1, check_types)

(***************************************************************************)
(* pd.concat(harmonized, sort=False).reset_index(drop=True)                *)
(***************************************************************************)
RECURSIVE AppendNew(_, _, _)
AppendNew(acc, columns, p) ==
    IF p > Len(columns) THEN acc
    ELSE AppendNew(IF Positions(acc, columns[p]) = {} THEN Append(acc, columns[p]) ELSE acc,
                   columns, p + 1)

\* The union of the frames' column labels, in order of first appearance.
RECURSIVE UnionColumns(_, _, _)
UnionColumns(acc, frames, i) ==
    IF i > Len(frames) THEN acc
    ELSE UnionColumns(AppendNew(acc, frames[i].columns, 1), frames, i + 1)

IsUnique(columns) ==
    \A p, q \in 1 .. Len(columns) : columns[p] = columns[q] => p = q

\* A frame's rows over the columns of the result; a column the frame does
\* not have is filled with the null marker.
Reindexed(df, columns) ==
    [r \in 1 .. Len(df.rows) |->
       [p \in 1 .. Len(columns) |->
          IF Positions(df.columns, columns[p]) = {} THEN Null
          ELSE df.rows[r][CHOOSE q \in Positions(df.columns, columns[p]) : TRUE]]]

RECURSIVE ConcatRows(_, _, _)
ConcatRows(frames, columns, i) ==
    IF i > Len(frames) THEN <<>>
    ELSE (IF frames[i].columns = columns THEN frames[i].rows
          ELSE Reindexed(frames[i], columns))
         \o ConcatRows(frames, columns, i + 1)

RECURSIVE ConcatIndex(_, _)
ConcatIndex(frames, i) ==
    IF i > Len(frames) THEN <<>>
    ELSE frames[i].index \o ConcatIndex(frames, i + 1)

\* pd.concat(objs, sort=False): no objects is a ValueError; frames whose
\* columns differ are reindexed to the union, which pandas refuses
\* (InvalidIndexError) for a frame with a duplicated label.
concat(objs) ==
    IF objs = <<>> THEN [status |-> "ValueError", df |-> read_csv(<<>>, 0, 0)]
    ELSE IF \E i \in 1 .. Len(objs) :
               /\ ~IsUnique(objs[i].columns)
               /\ \E j \in 1 .. Len(objs) : objs[j].columns # objs[i].columns
         THEN [status |-> "InvalidIndexError", df |-> read_csv(<<>>, 0, 0)]
         ELSE LET columns == IF \A i \in 1 .. Len(objs) : objs[i].columns = objs[1].columns
                             THEN objs[1].columns
                             ELSE UnionColumns(<<>>, objs, 1)
              IN  [status |-> "ok",
                   df |-> [columns |-> columns,
                           rows    |-> ConcatRows(objs, columns, 1),
                           index   |-> ConcatIndex(objs, 1)]]

\* reset_index, had the concatenated index been kept.
reset_index_kept(df) == df

\* DataFrame.reset_index(drop=True)
reset_index(df) == [df EXCEPT !.index = [r \in 1 .. Len(df.rows) |-> r - 1]]

(***************************************************************************)
(* merge.                                                                  *)
(***************************************************************************)
\* The loop of merge over self.bank_files (lines 95-112).  used records the
\* key of the meta dictionary each harmonized bank was harmonized with.
RECURSIVE BankLoop(_, _, _, _, _)
BankLoop(acc, files, i, meta_dict, check_types) ==
    IF acc.status # "ok" \/ i > Len(files) THEN acc
    ELSE LET bank == files[i].name
             entry == IF bank \in DOMAIN meta_dict THEN bank ELSE "default"
         IN  IF entry \in DOMAIN meta_dict
             THEN LET h == _harmonize(files[i].df, meta_dict[entry], check_types)
                  IN  IF h.status = "ok"
                      THEN BankLoop([acc EXCEPT
                                       !.harmonized = Append(acc.harmonized, h.df),
                                       !.renames = Append(acc.renames, h.renames),
                                       !.used = Append(acc.used, entry),
                                       !.printed = acc.printed \o h.printed],
                                    files, i + 1, meta_dict, check_types)
                      ELSE [acc EXCEPT !.status = h.status,
                                       !.printed = acc.printed \o h.printed]
             ELSE [acc EXCEPT !.status = "BankNotFoundError"]

NoCall ==
    [status |-> "ok", harmonized |-> <<>>, renames |-> <<>>, used |-> <<>>,
     printed |-> <<>>, out |-> <<>>]

\* MergeBody, had merged_data been assigned the banks harmonized so far
\* when the loop raises.
MergeBodyPartial(files, meta_dict, check_types) ==
    LET acc == BankLoop(NoCall, files, 1, meta_dict, check_types)
        c == concat(acc.harmonized)
    IN  IF c.status # "ok"
        THEN [acc EXCEPT !.status = IF acc.status # "ok" THEN acc.status ELSE c.status]
        ELSE [acc EXCEPT !.out = <<reset_index(c.df)>>]

\* The body of `if not run_dry:` (lines 94-115).  out is <<>> when no value
\* is assigned to self.merged_data, else the value assigned.
MergeBody(files, meta_dict, check_types) ==
    LET acc == BankLoop(NoCall, files, 1, meta_dict, check_types)
    IN  IF acc.status # "ok" THEN acc
        ELSE LET c == concat(acc.harmonized)
             IN  IF c.status # "ok" THEN [acc EXCEPT !.status = c.status]
                 ELSE [acc EXCEPT !.out = <<reset_index(c.df)>>]

\* MergeCall, had run_dry not been tested.
MergeCallIgnoringDry(files, meta_dict, check_types, run_dry) ==
    MergeBody(files, meta_dict, check_types)

\* merge(custom_meta_dict, check_types, run_dry), lines 85-115.
MergeCall(files, meta_dict, check_types, run_dry) ==
    IF run_dry THEN NoCall ELSE MergeBody(files, meta_dict, check_types)

(***************************************************************************)
(* _get_files.                                                             *)
(***************************************************************************)
\* Lines 220-227.  frames[0] of no frames is an IndexError and a failed
\* assert an AssertionError; either reaches `except NonMatchingShapesError():`
\* which, as in _harmonize, raises TypeError without running its print.
ShapeCheck(frames, ignore_shape) ==
    IF ignore_shape THEN "ok"
    ELSE IF frames = <<>> THEN "TypeError"
    ELSE IF \E i \in 1 .. Len(frames) :
               Len(frames[i].df.columns) # Len(frames[1].df.columns)
         THEN "TypeError"
         ELSE "ok"

(***************************************************************************)
(* State.                                                                  *)
(*   dir          the csv files of the directory, in os.listdir() order   *)
(*   pc           "new" before BankMerge(...), "ready" once constructed,   *)
(*                "failed" when __init__ raised                            *)
(*   bank_files   self.bank_files, <<>> while there is no object           *)
(*   merged_data  self.merged_data: <<>> while the attribute is unset      *)
(*   last         the last call, its arguments and what it did             *)
(***************************************************************************)
File(name, df) == [name |-> name, df |-> df]

Directories ==
    {<<>>}
    \cup {<<File(a, read_csv(h, n, s))>> :
             a \in BankNames, h \in Headers, n \in 0 .. MaxRows, s \in Seeds}
    \cup {<<File(a, read_csv(h1, n1, s)), File(b, read_csv(h2, n2, s + 1))>> :
             a \in BankNames, b \in BankNames, h1 \in Headers, h2 \in Headers,
             n1 \in 0 .. MaxRows, n2 \in 0 .. MaxRows, s \in Seeds}

NoLast ==
    [op |-> "none", ignore_shape |-> FALSE, custom_meta_dict |-> "None",
     check_types |-> FALSE, run_dry |-> FALSE, call |-> NoCall]

Init ==
    /\ dir \in {d \in Directories : Len(d) = 2 => d[1].name # d[2].name}
    /\ pc = "new"
    /\ bank_files = <<>>
    /\ merged_data = <<>>
    /\ last = NoLast

\* BankMerge(file_path, ignore_shape): __init__ and _get_files.
Construct(ignore_shape) ==
    /\ pc = "new"
    /\ LET status == ShapeCheck(dir, ignore_shape)
       IN  /\ pc' = IF status = "ok" THEN "ready" ELSE "failed"
           /\ bank_files' = IF status = "ok" THEN dir ELSE bank_files
           /\ last' = [NoLast EXCEPT !.op = "init",
                                     !.ignore_shape = ignore_shape,
                                     !.call.status = status]
    /\ UNCHANGED <<dir, merged_data>>

\* merge(custom_meta_dict, check_types, run_dry)
Merge(custom_meta_dict, check_types, run_dry) ==
    /\ pc = "ready"
    /\ LET meta_dict == IF custom_meta_dict = "None" THEN _get_default_meta_dict
                        ELSE json_load(custom_meta_dict)
           call == MergeCall(bank_files, meta_dict, check_types, run_dry)
       IN  /\ merged_data' = IF call.out = <<>> THEN merged_data ELSE call.out
           /\ last' = [op |-> "merge", ignore_shape |-> FALSE,
                       custom_meta_dict |-> custom_meta_dict,
                       check_types |-> check_types, run_dry |-> run_dry,
                       call |-> call]
    /\ UNCHANGED <<dir, pc, bank_files>>

Next ==
    \/ \E ignore_shape \in BOOLEAN : Construct(ignore_shape)
    \/ \E custom_meta_dict \in MetaDictFiles, check_types \in BOOLEAN, run_dry \in BOOLEAN :
          Merge(custom_meta_dict, check_types, run_dry)

Spec == Init /\ [][Next]_vars

(***************************************************************************)
(* The scenario of two banks: bankA with capitalised labels and 3 rows,    *)
(* bankB with lower-case labels and 2 rows, listed in that order.          *)
(***************************************************************************)
ScenarioA(seed) == read_csv(<<"Date", "Type", "Amount", "To", "From">>, 3, seed)

ScenarioB(seed) == read_csv(<<"date", "transaction", "amounts", "to", "from">>, 2, seed)

InitScenario ==
    /\ dir \in {<<File("bankA", ScenarioA(sa)), File("bankB", ScenarioB(sb))>> :
                   sa \in Seeds, sb \in Seeds}
    /\ pc = "new"
    /\ bank_files = <<>>
    /\ merged_data = <<>>
    /\ last = NoLast

SpecScenario == InitScenario /\ [][Next]_vars

(***************************************************************************)
(* Vocabulary of the properties.                                           *)
(***************************************************************************)
\* The last call was a merge that was not a dry run.
Ran == last.op = "merge" /\ ~last.run_dry

LastMetaDict ==
    IF last.custom_meta_dict = "None" THEN _get_default_meta_dict
    ELSE json_load(last.custom_meta_dict)

Resolves(name, meta_dict) ==
    name \in DOMAIN meta_dict \/ "default" \in DOMAIN meta_dict

EntryFor(name, meta_dict) ==
    IF name \in DOMAIN meta_dict THEN name ELSE "default"

RECURSIVE RowsBefore(_, _)
RowsBefore(frames, i) ==
    IF i <= 1 THEN 0 ELSE RowsBefore(frames, i - 1) + Len(frames[i - 1].rows)

TotalRows(frames) == RowsBefore(frames, Len(frames) + 1)

Labels(columns) == {columns[p] : p \in 1 .. Len(columns)}

\* The column at position p is the Occurrence-th one bearing its label.
Occurrence(columns, p) == Cardinality({q \in 1 .. p : columns[q] = columns[p]})

\* The cell of row r of df in its k-th column labelled label, null when df
\* has no such column.
CellOf(df, r, label, k) ==
    LET at == {q \in 1 .. Len(df.columns) :
                  df.columns[q] = label /\ Occurrence(df.columns, q) = k}
    IN  IF at = {} THEN Null ELSE df.rows[r][CHOOSE q \in at : TRUE]

Unparsable(df, label, fmt) ==
    \E r \in 1 .. Len(df.rows) : \E p \in Positions(df.columns, label) :
       to_datetime_value(df.rows[r][p], fmt) = <<>>

(***************************************************************************)
(* Properties.                                                             *)
(***************************************************************************)

\* C1: after a merge that was not a dry run, every harmonized bank was
\* harmonized with its own entry of the meta dictionary when it has one and
\* with the default entry otherwise, and when some bank has neither the
\* merge has raised BankNotFoundError and assigned no merged data.
C1_RuleResolution ==
    Ran =>
      /\ \A i \in 1 .. Len(last.call.used) :
            last.call.used[i] = EntryFor(bank_files[i].name, LastMetaDict)
      /\ (\E i \in 1 .. Len(bank_files) : ~Resolves(bank_files[i].name, LastMetaDict))
            => /\ last.call.status = "BankNotFoundError"
               /\ last.call.out = <<>>

\* C2: with check_types a merge never ends in the exception of a failed
\* coercion: every bank that resolves is harmonized, and a column whose
\* values do not parse is reported in a printed warning.
C2_CoercionNeverAborts ==
    (Ran /\ last.check_types) =>
      /\ last.call.status # "TypeError"
      /\ (\A i \in 1 .. Len(bank_files) : Resolves(bank_files[i].name, LastMetaDict))
            => Len(last.call.harmonized) = Len(bank_files)

C4_RenamedAtMostOnce ==
    Ran => \A i \in 1 .. Len(last.call.renames) :
              \A p \in 1 .. Len(last.call.renames[i]) : last.call.renames[i][p] <= 1

\* C5: a harmonized frame bears no canonical name of its rule set on more
\* than one column.
C5_CanonicalNamesUnique ==
    Ran => \A i \in 1 .. Len(last.call.harmonized) :
              \A k \in 1 .. Len(LastMetaDict[last.call.used[i]]) :
                 Cardinality(Positions(last.call.harmonized[i].columns,
                                       LastMetaDict[last.call.used[i]][k].key)) <= 1

\* C6: a merge that ends in an exception leaves merged_data as it was, and
\* merged_data, once set, holds the rows of all banks.
C6_FailedMergeKeepsMerged ==
    [][/\ (last'.op = "merge" /\ last'.call.status # "ok") => merged_data' = merged_data
       /\ merged_data' # <<>> =>
             Len(merged_data'[1].rows) =
                TotalRows([i \in 1 .. Len(bank_files') |-> bank_files'[i].df])]_vars

\* A merge failed on a later bank, after a bank was harmonized, while the
\* merged data of an earlier merge is held.
C6_Witness ==
    /\ last.op = "merge"
    /\ last.call.status = "BankNotFoundError"
    /\ Len(last.call.harmonized) >= 1
    /\ merged_data # <<>>

\* C7: a dry run changes neither merged_data nor bank_files, harmonizes
\* nothing and raises nothing, whatever check_types is.
C7_DryRunChangesNothing ==
    [][(last'.op = "merge" /\ last'.run_dry) =>
          /\ merged_data' = merged_data
          /\ bank_files' = bank_files
          /\ last'.call.status = "ok"
          /\ last'.call.harmonized = <<>>
          /\ last'.call.out = <<>>]_vars

\* A dry run with check_types after a merge, over a bank that the meta
\* dictionary does not resolve.
C7_Witness ==
    /\ last.op = "merge"
    /\ last.run_dry
    /\ last.check_types
    /\ merged_data # <<>>
    /\ \E i \in 1 .. Len(bank_files) : ~Resolves(bank_files[i].name, LastMetaDict)

\* C8: the constructor returns the loaded frames for every directory: with
\* ignore_shape always, and without it also when the column counts differ,
\* which it then reports in a printed warning.
C8_ShapeMismatchIsWarning ==
    last.op = "init" =>
      /\ last.ignore_shape => (pc = "ready" /\ bank_files = dir)
      /\ (/\ ~last.ignore_shape
          /\ \E i \in 1 .. Len(dir) : Len(dir[i].df.columns) # Len(dir[1].df.columns))
            => /\ pc = "ready"
               /\ bank_files = dir
               /\ last.call.printed # <<>>

\* C9: over no banks the constructor's shape check does not fail, and a
\* merge that is not a dry run returns normally with merged data of no rows.
C9_NoSourcesIsEmptyResult ==
    /\ (last.op = "init" /\ dir = <<>>) => pc = "ready"
    /\ (Ran /\ bank_files = <<>>) =>
          /\ last.call.status = "ok"
          /\ merged_data # <<>>
          /\ merged_data[1].rows = <<>>

====
